---- MODULE Spec2Model ----
(***************************************************************************)
(* A model of src/script.py: generate_gree_expression and its helpers.    *)
(*                                                                         *)
(* A Python string is a sequence of one-character strings, so that len(), *)
(* s[0], s[-1], "c in s", re.escape and the text of a pattern are all     *)
(* computed character by character.  A pattern is such a sequence too:    *)
(* "^\D+$" is <<"^", "\\", "D", "+", "$">>, of length 5.                  *)
(* re.compile / regex.fullmatch are modelled by Compiles and FullMatch, a  *)
(* backtracking matcher for the syntax the generators emit.                *)
(***************************************************************************)
EXTENDS Integers, Sequences, FiniteSets

(***************************************************************************)
(* Bounds of the model.                                                    *)
(***************************************************************************)
MaxStrings == 3    \* valid_strings and invalid_strings hold at most this many
                   \* strings together

(***************************************************************************)
(* Program constants.                                                      *)
(***************************************************************************)
MaxPatternLen == 20    \* len(pattern) <= 20
MaxLiteralLen == 18    \* len(valid_strings[0]) <= 18

(***************************************************************************)
(* The characters of the input strings: a letter, a digit, four of the     *)
(* common separators and the line feed.  Singles are those that also occur *)
(* as a one-character string; "@" occurs inside the longer strings only.   *)
(***************************************************************************)
Letters == {"x"}
Digits == {"1"}
Singles == Letters \cup Digits \cup {".", "-", "_", "\n"}

Rep(c, n) == [k \in 1..n |-> c]

SeqsUpTo(S, n) == UNION {[1..k -> S] : k \in 0..n}

Range(f) == {f[k] : k \in DOMAIN f}

\* The longer input strings: the shapes the generators look for, and a string
\* on each side of the exact-literal fallback's length budget.
ScenarioStrings ==
    { <<"x", "-">>, <<"-", "x">>, <<"1", "x">>, <<"x", "-", "x">>,
      <<"x", "@", "x", ".", "x">>, <<"1", "@", "x", ".", "x">>,
      <<"1", "-", "@", "x", ".", "x">>,
      Rep("x", MaxLiteralLen), Rep("x", MaxLiteralLen + 1) }

\* The strings an example list is drawn from: the empty string, every
\* one-character string, and the scenario strings.
Pool == {<<>>} \cup {<<c>> : c \in Singles} \cup ScenarioStrings

ValidInputs == SeqsUpTo(Pool, MaxStrings)
InvalidInputs(valid) == SeqsUpTo(Pool, MaxStrings - Len(valid))

(***************************************************************************)
(* str methods.                                                            *)
(***************************************************************************)
isalpha(s) == Len(s) > 0 /\ \A k \in 1..Len(s) : s[k] \in Letters
isdigit(s) == Len(s) > 0 /\ \A k \in 1..Len(s) : s[k] \in Digits
isalnum(s) == Len(s) > 0 /\ \A k \in 1..Len(s) : s[k] \in Letters \cup Digits
contains(s, c) == \E k \in 1..Len(s) : s[k] = c
startswith(s, c) == Len(s) > 0 /\ s[1] = c
endswith(s, c) == Len(s) > 0 /\ s[Len(s)] = c
chars_of(strings) == UNION {Range(strings[k]) : k \in 1..Len(strings)}

(***************************************************************************)
(* re.escape: a backslash before each character of re's special set.       *)
(***************************************************************************)
SpecialChars ==
    { "(", ")", "[", "]", "{", "}", "?", "*", "+", "-", "|", "^", "$",
      "\\", ".", "&", "~", "#", " ", "\t", "\n", "\r", "\f" }

RECURSIVE re_escape(_)
re_escape(s) ==
    IF s = <<>> THEN <<>>
    ELSE (IF Head(s) \in SpecialChars THEN <<"\\", Head(s)>> ELSE <<Head(s)>>)
         \o re_escape(Tail(s))

\* The generators' "special handling for dash - don't escape it".
escaped_char(c) == IF c = "-" THEN <<"-">> ELSE re_escape(<<c>>)

(***************************************************************************)
(* str(length) inside the f-string of the length pattern.                  *)
(***************************************************************************)
DigitChars == <<"0", "1", "2", "3", "4", "5", "6", "7", "8", "9">>

RECURSIVE Decimal(_)
Decimal(n) ==
    IF n < 10 THEN <<DigitChars[n + 1]>>
    ELSE Decimal(n \div 10) \o <<DigitChars[(n % 10) + 1]>>

(***************************************************************************)
(* The regular-expression engine (re.compile, regex.fullmatch).            *)
(*   atoms        \D \d \w  \c  .  c  [...]  [^...]                        *)
(*   quantifiers  + * {n}                                                   *)
(*   assertions   ^ $                                                       *)
(***************************************************************************)
DigitValue(c) == CHOOSE d \in 0..9 : DigitChars[d + 1] = c

RECURSIVE ParseNat(_, _, _)
\* The number written in p[a..b].
ParseNat(p, a, b) ==
    IF a > b THEN 0 ELSE 10 * ParseNat(p, a, b - 1) + DigitValue(p[b])

RECURSIVE BracketClose(_, _)
\* Index of the "]" that closes a class whose members start at k; 0 if none.
BracketClose(p, k) ==
    IF k > Len(p) THEN 0
    ELSE IF p[k] = "\\" THEN BracketClose(p, k + 2)
    ELSE IF p[k] = "]" THEN k
    ELSE BracketClose(p, k + 1)

RECURSIVE BracketMembers(_, _, _)
\* The characters listed in p[a..b], the inside of a class (an escaped
\* character stands for itself; the generators never write a range).
BracketMembers(p, a, b) ==
    IF a > b THEN {}
    ELSE IF p[a] = "\\" THEN {p[a + 1]} \cup BracketMembers(p, a + 2, b)
    ELSE {p[a]} \cup BracketMembers(p, a + 1, b)

BracketNegated(p, i) == i + 1 <= Len(p) /\ p[i + 1] = "^"
BracketStart(p, i) == IF BracketNegated(p, i) THEN i + 2 ELSE i + 1

\* Number of pattern characters of the atom that starts at p[i]; 0 if malformed.
AtomLen(p, i) ==
    IF p[i] = "\\" THEN (IF i + 1 <= Len(p) THEN 2 ELSE 0)
    ELSE IF p[i] = "["
         THEN (IF BracketClose(p, BracketStart(p, i)) = 0 THEN 0
               ELSE BracketClose(p, BracketStart(p, i)) - i + 1)
    ELSE 1

\* Does the atom that starts at p[i] match the character c?
AtomMatches(p, i, c) ==
    IF p[i] = "\\"
    THEN (IF p[i + 1] = "D" THEN c \notin Digits
          ELSE IF p[i + 1] = "d" THEN c \in Digits
          ELSE IF p[i + 1] = "w" THEN c \in Letters \cup Digits \cup {"_"}
          ELSE c = p[i + 1])
    ELSE IF p[i] = "["
         THEN (c \in BracketMembers(p, BracketStart(p, i),
                                    BracketClose(p, BracketStart(p, i)) - 1))
              # BracketNegated(p, i)
    ELSE IF p[i] = "." THEN c # "\n"
    ELSE c = p[i]

RECURSIVE BraceClose(_, _)
BraceClose(p, k) ==
    IF k > Len(p) THEN 0 ELSE IF p[k] = "}" THEN k ELSE BraceClose(p, k + 1)

\* The quantifier at p[q], if any: least and greatest repetition count
\* (max = -1: unbounded) and its length in pattern characters.
Quantifier(p, q) ==
    IF q > Len(p) THEN [min |-> 1, max |-> 1, len |-> 0]
    ELSE IF p[q] = "+" THEN [min |-> 1, max |-> -1, len |-> 1]
    ELSE IF p[q] = "*" THEN [min |-> 0, max |-> -1, len |-> 1]
    ELSE IF p[q] = "{" /\ BraceClose(p, q) # 0
         THEN [min |-> ParseNat(p, q + 1, BraceClose(p, q) - 1),
               max |-> ParseNat(p, q + 1, BraceClose(p, q) - 1),
               len |-> BraceClose(p, q) - q + 1]
    ELSE [min |-> 1, max |-> 1, len |-> 0]

RECURSIVE Compiles(_, _)
\* re.compile(pattern) raises no re.error, reading from p[i] on.
Compiles(p, i) ==
    IF i > Len(p) THEN TRUE
    ELSE IF p[i] \in {"^", "$"} THEN Compiles(p, i + 1)
    ELSE IF p[i] \in {"+", "*", "?", ")"} THEN FALSE
    ELSE AtomLen(p, i) # 0
         /\ Compiles(p, i + AtomLen(p, i) + Quantifier(p, i + AtomLen(p, i)).len)

RECURSIVE Match(_, _, _, _)
RECURSIVE Repeat(_, _, _, _, _, _)

\* p[i..] matches s[j..] and ends at the end of s.
Match(p, i, s, j) ==
    IF i > Len(p) THEN j = Len(s) + 1
    ELSE IF p[i] = "^" THEN j = 1 /\ Match(p, i + 1, s, j)
    ELSE IF p[i] = "$"
         THEN (j = Len(s) + 1 \/ (j = Len(s) /\ s[j] = "\n"))
              /\ Match(p, i + 1, s, j)
    ELSE Repeat(p, i, Quantifier(p, i + AtomLen(p, i)), s, j, 0)

\* The atom at p[i], under its quantifier q, has matched n characters up to
\* s[j - 1]: either this is enough and the rest of the pattern matches from
\* s[j], or the atom takes s[j] too.
Repeat(p, i, q, s, j, n) ==
    \/ n >= q.min /\ Match(p, i + AtomLen(p, i) + q.len, s, j)
    \/ /\ q.max = -1 \/ n < q.max
       /\ j <= Len(s)
       /\ AtomMatches(p, i, s[j])
       /\ Repeat(p, i, q, s, j + 1, n + 1)

\* regex.fullmatch(s) is not None, for regex = re.compile(p).
FullMatch(p, s) == Match(p, 1, s, 1)

\* _test_pattern without its first loop: the valid strings are not looked at.
_test_pattern_InvalidOnly(pattern, valid, invalid) ==
    /\ Compiles(pattern, 1)
    /\ \A k \in 1..Len(invalid) : ~FullMatch(pattern, invalid[k])

(***************************************************************************)
(* _test_pattern: compile, every valid string must match, no invalid one   *)
(* may; a pattern that does not compile fails the test.                    *)
(***************************************************************************)
_test_pattern(pattern, valid, invalid) ==
    /\ Compiles(pattern, 1)
    /\ \A k \in 1..Len(valid) : FullMatch(pattern, valid[k])
    /\ \A k \in 1..Len(invalid) : ~FullMatch(pattern, invalid[k])

(***************************************************************************)
(* The candidate generators.  Each returns a sequence of patterns.         *)
(***************************************************************************)
NonDigits == <<"^", "\\", "D", "+", "$">>      \* "^\D+$"
AllDigits == <<"^", "\\", "d", "+", "$">>      \* "^\d+$"
WordChars == <<"^", "\\", "w", "+", "$">>      \* "^\w+$"

\* _get_character_class_patterns asking for at least one invalid string before
\* it proposes "^\D+$".
_get_character_class_patterns_NeedsInvalid(valid, invalid) ==
    (IF (\A k \in 1..Len(valid) : isalpha(valid[k]))
        /\ invalid # <<>>
        /\ (\A k \in 1..Len(invalid) : isdigit(invalid[k]))
     THEN <<NonDigits>> ELSE <<>>)
    \o (IF (\A k \in 1..Len(valid) : isdigit(valid[k]))
           /\ (\A k \in 1..Len(invalid) : isalpha(invalid[k]))
        THEN <<AllDigits>> ELSE <<>>)
    \o (IF \A k \in 1..Len(valid) : isalnum(valid[k])
        THEN <<WordChars>> ELSE <<>>)

_get_character_class_patterns(valid, invalid) ==
    (IF (\A k \in 1..Len(valid) : isalpha(valid[k]))
        /\ (\A k \in 1..Len(invalid) : isdigit(invalid[k]))
     THEN <<NonDigits>> ELSE <<>>)
    \o (IF (\A k \in 1..Len(valid) : isdigit(valid[k]))
           /\ (\A k \in 1..Len(invalid) : isalpha(invalid[k]))
        THEN <<AllDigits>> ELSE <<>>)
    \o (IF \A k \in 1..Len(valid) : isalnum(valid[k])
        THEN <<WordChars>> ELSE <<>>)

NonEmpty(strings) == {k \in 1..Len(strings) : strings[k] # <<>>}
start_chars(valid) == {valid[k][1] : k \in NonEmpty(valid)}
end_chars(valid) == {valid[k][Len(valid[k])] : k \in NonEmpty(valid)}
TheOne(S) == CHOOSE c \in S : TRUE             \* list(S)[0] of a one-element set

_get_position_patterns(valid, invalid) ==
    (IF Cardinality(start_chars(valid)) = 1
        /\ ~\E k \in 1..Len(invalid) : startswith(invalid[k], TheOne(start_chars(valid)))
     THEN LET e == escaped_char(TheOne(start_chars(valid)))
          IN  << <<"^", "[">> \o e \o <<"]", ".", "+", "$">>,
                 <<"^">> \o e \o <<".", "*", "$">> >>
     ELSE <<>>)
    \o (IF Cardinality(end_chars(valid)) = 1
           /\ ~\E k \in 1..Len(invalid) : endswith(invalid[k], TheOne(end_chars(valid)))
        THEN LET e == escaped_char(TheOne(end_chars(valid)))
             IN  << <<"^", ".", "+", "[">> \o e \o <<"]", "$">>,
                    <<"^", ".", "*">> \o e \o <<"$">> >>
        ELSE <<>>)

\* "^\D+@\w+\.\w+$"
email_pattern ==
    <<"^", "\\", "D", "+", "@", "\\", "w", "+", "\\", ".", "\\", "w", "+", "$">>
\* "^[^@]+@[^@]+\.[^@]+$"
NoAtEmail ==
    <<"^", "[", "^", "@", "]", "+", "@", "[", "^", "@", "]", "+", "\\", ".",
      "[", "^", "@", "]", "+", "$">>
\* "^\w+@\w+\.\w+$"
WordEmail ==
    <<"^", "\\", "w", "+", "@", "\\", "w", "+", "\\", ".", "\\", "w", "+", "$">>

\* The condition under which the structural generator proposes anything.
LooksLikeEmail(valid) ==
    \A k \in 1..Len(valid) : contains(valid[k], "@") /\ contains(valid[k], ".")

\* _get_structure_patterns appending the gated pattern after the other two.
_get_structure_patterns_GateLast(valid, invalid) ==
    IF LooksLikeEmail(valid)
    THEN <<NoAtEmail, WordEmail>>
         \o (IF _test_pattern(email_pattern, valid, invalid)
             THEN <<email_pattern>> ELSE <<>>)
    ELSE <<>>

_get_structure_patterns(valid, invalid) ==
    IF LooksLikeEmail(valid)
    THEN (IF _test_pattern(email_pattern, valid, invalid)
          THEN <<email_pattern>> ELSE <<>>)
         \o <<NoAtEmail, WordEmail>>
    ELSE <<>>

exclusive_chars(valid, invalid) == chars_of(valid) \ chars_of(invalid)

\* The members of exclusive_chars that pass the loop's test
\* "all(char in s for s in valid_strings)"; the loop skips the others.
common_exclusive(valid, invalid) ==
    {c \in exclusive_chars(valid, invalid) :
        \A k \in 1..Len(valid) : contains(valid[k], c)}

\* The orders in which "for char in exclusive_chars" may visit a set: a
\* Python set of str has no order the program fixes.  Only the relative order
\* of the characters that pass the loop's test shows in the patterns, so a
\* run is told apart by the order of those.
IterationOrders(S) ==
    {o \in [1..Cardinality(S) -> S] : \A c \in S : \E k \in DOMAIN o : o[k] = c}

RECURSIVE ExclusivePatterns(_, _)
\* The first loop of _get_content_patterns, visiting the characters in order.
ExclusivePatterns(order, valid) ==
    IF order = <<>> THEN <<>>
    ELSE (IF \A k \in 1..Len(valid) : contains(valid[k], Head(order))
          THEN LET e == escaped_char(Head(order))
               IN  << <<"^", ".", "+">> \o e \o <<".", "+", "$">>,
                      <<"^", ".", "*">> \o e \o <<".", "*", "$">> >>
          ELSE <<>>)
         \o ExclusivePatterns(Tail(order), valid)

common_separators == <<"-", "@", ".", "_", ":">>

\* The separator test without its condition on the invalid strings.
SeparatorApplies_ValidOnly(sep, valid, invalid) ==
    \A k \in 1..Len(valid) : contains(valid[k], sep)

SeparatorApplies(sep, valid, invalid) ==
    /\ \A k \in 1..Len(valid) : contains(valid[k], sep)
    /\ ~\E k \in 1..Len(invalid) : contains(invalid[k], sep)

RECURSIVE SeparatorPatterns(_, _, _)
\* The second loop of _get_content_patterns.
SeparatorPatterns(seps, valid, invalid) ==
    IF seps = <<>> THEN <<>>
    ELSE (IF SeparatorApplies(Head(seps), valid, invalid)
          THEN << <<"^", ".", "+">> \o escaped_char(Head(seps)) \o <<".", "+", "$">> >>
          ELSE <<>>)
         \o SeparatorPatterns(Tail(seps), valid, invalid)

_get_content_patterns(valid, invalid, order) ==
    ExclusivePatterns(order, valid)
    \o SeparatorPatterns(common_separators, valid, invalid)

valid_lengths(valid) == {Len(valid[k]) : k \in 1..Len(valid)}
invalid_lengths(invalid) == {Len(invalid[k]) : k \in 1..Len(invalid)}

_get_length_patterns(valid, invalid) ==
    IF Cardinality(valid_lengths(valid)) = 1
       /\ valid_lengths(valid) \cap invalid_lengths(invalid) = {}
    THEN << <<"^", ".", "{">> \o Decimal(TheOne(valid_lengths(valid))) \o <<"}", "$">> >>
    ELSE <<>>

(***************************************************************************)
(* generate_gree_expression.                                               *)
(***************************************************************************)
EmptyOnly == <<"^", "$">>                     \* "^$"
MatchAll == <<"^", ".", "*", "$">>            \* "^.*$"
ExactLiteral(s) == <<"^">> \o re_escape(s) \o <<"$">>

\* The length test with < for <=.
WithinBudget_Strict(pattern) == Len(pattern) < MaxPatternLen

WithinBudget(pattern) == Len(pattern) <= MaxPatternLen

\* The fallback ladder with < for <=.
Fallback_Strict(valid) ==
    IF Len(valid) = 1 /\ Len(valid[1]) < MaxLiteralLen
    THEN [pattern |-> ExactLiteral(valid[1]), via |-> "escape"]
    ELSE [pattern |-> MatchAll, via |-> "universal"]

\* Lines 39-43: the fallback ladder.
Fallback(valid) ==
    IF Len(valid) = 1 /\ Len(valid[1]) <= MaxLiteralLen
    THEN [pattern |-> ExactLiteral(valid[1]), via |-> "escape"]
    ELSE [pattern |-> MatchAll, via |-> "universal"]

\* Lines 19-32: the candidate list, the generators' outputs in call order.
Candidates(valid, invalid, o) ==
    _get_character_class_patterns(valid, invalid)
    \o _get_position_patterns(valid, invalid)
    \o _get_structure_patterns(valid, invalid)
    \o _get_content_patterns(valid, invalid, o)
    \o _get_length_patterns(valid, invalid)

RECURSIVE FirstPassing(_, _, _, _)
\* Lines 35-37: index of the candidate the loop returns, from k on; 0 if none.
FirstPassing(cands, k, valid, invalid) ==
    IF k > Len(cands) THEN 0
    ELSE IF WithinBudget(cands[k]) /\ _test_pattern(cands[k], valid, invalid) THEN k
    ELSE FirstPassing(cands, k + 1, valid, invalid)

\* Lines 34-43: what the call returns for a candidate list.
Outcome(cands, valid, invalid) ==
    LET k == FirstPassing(cands, 1, valid, invalid)
    IN  IF k = 0 THEN Fallback(valid).pattern ELSE cands[k]

\* The whole call as a function of its arguments and of the order in which
\* the run iterates the set exclusive_chars.
generate_gree_expression(valid, invalid, o) ==
    IF valid = <<>> THEN EmptyOnly
    ELSE Outcome(Candidates(valid, invalid, o), valid, invalid)

NoResult == <<>>

VARIABLES
    valid_strings,      \* the first argument
    invalid_strings,    \* the second argument
    pc,                 \* where the call stands
    patterns_to_try,    \* the candidate list
    order,              \* the order in which this run iterates exclusive_chars
    idx,                \* position of the "for pattern in patterns_to_try" loop
    result,             \* the returned pattern, NoResult before the return
    via,                \* the return statement taken
    invoked             \* the helper functions called so far

vars == <<valid_strings, invalid_strings, pc, patterns_to_try, order, idx,
          result, via, invoked>>

Init ==
    /\ valid_strings \in ValidInputs
    /\ invalid_strings \in InvalidInputs(valid_strings)
    /\ pc = "start"
    /\ patterns_to_try = <<>>
    /\ order = <<>>
    /\ idx = 1
    /\ result = NoResult
    /\ via = "none"
    /\ invoked = {}

\* Enter without the test for an empty valid_strings.
Enter_NoEmptyCheck ==
    /\ pc = "start"
    /\ pc' = "character_class"
    /\ UNCHANGED <<valid_strings, invalid_strings, patterns_to_try, order, idx,
                   result, via, invoked>>

\* Lines 15-19.
Enter ==
    /\ pc = "start"
    /\ IF valid_strings = <<>>
       THEN /\ result' = EmptyOnly
            /\ via' = "empty"
            /\ pc' = "done"
       ELSE /\ pc' = "character_class"
            /\ UNCHANGED <<result, via>>
    /\ UNCHANGED <<valid_strings, invalid_strings, patterns_to_try, order, idx, invoked>>

\* Line 22.
CharacterClass ==
    /\ pc = "character_class"
    /\ patterns_to_try' = patterns_to_try
            \o _get_character_class_patterns(valid_strings, invalid_strings)
    /\ invoked' = invoked \cup {"_get_character_class_patterns"}
    /\ pc' = "position"
    /\ UNCHANGED <<valid_strings, invalid_strings, order, idx, result, via>>

\* Line 25.
Position ==
    /\ pc = "position"
    /\ patterns_to_try' = patterns_to_try
            \o _get_position_patterns(valid_strings, invalid_strings)
    /\ invoked' = invoked \cup {"_get_position_patterns"}
    /\ pc' = "structure"
    /\ UNCHANGED <<valid_strings, invalid_strings, order, idx, result, via>>

\* Line 28.
Structure ==
    /\ pc = "structure"
    /\ patterns_to_try' = patterns_to_try
            \o _get_structure_patterns(valid_strings, invalid_strings)
    /\ invoked' = invoked \cup {"_get_structure_patterns"}
            \cup (IF LooksLikeEmail(valid_strings) THEN {"_test_pattern"} ELSE {})
    /\ pc' = "content"
    /\ UNCHANGED <<valid_strings, invalid_strings, order, idx, result, via>>

\* Line 29.
Content ==
    /\ pc = "content"
    /\ \E o \in IterationOrders(common_exclusive(valid_strings, invalid_strings)) :
          /\ order' = o
          /\ patterns_to_try' = patterns_to_try
                \o _get_content_patterns(valid_strings, invalid_strings, o)
    /\ invoked' = invoked \cup {"_get_content_patterns"}
    /\ pc' = "length"
    /\ UNCHANGED <<valid_strings, invalid_strings, idx, result, via>>

\* Line 32.
Length ==
    /\ pc = "length"
    /\ patterns_to_try' = patterns_to_try
            \o _get_length_patterns(valid_strings, invalid_strings)
    /\ invoked' = invoked \cup {"_get_length_patterns"}
    /\ pc' = "loop"
    /\ UNCHANGED <<valid_strings, invalid_strings, order, idx, result, via>>

\* Lines 35-37: one iteration of the loop.
TestNext ==
    /\ pc = "loop"
    /\ idx <= Len(patterns_to_try)
    /\ IF WithinBudget(patterns_to_try[idx])
       THEN /\ invoked' = invoked \cup {"_test_pattern"}
            /\ IF _test_pattern(patterns_to_try[idx], valid_strings, invalid_strings)
               THEN /\ result' = patterns_to_try[idx]
                    /\ via' = "candidate"
                    /\ pc' = "done"
                    /\ idx' = idx
               ELSE /\ idx' = idx + 1
                    /\ UNCHANGED <<result, via, pc>>
       ELSE /\ idx' = idx + 1
            /\ UNCHANGED <<result, via, pc, invoked>>
    /\ UNCHANGED <<valid_strings, invalid_strings, patterns_to_try, order>>

\* Lines 39-43: the loop ended without a return.
FallBack ==
    /\ pc = "loop"
    /\ idx > Len(patterns_to_try)
    /\ result' = Fallback(valid_strings).pattern
    /\ via' = Fallback(valid_strings).via
    /\ pc' = "done"
    /\ UNCHANGED <<valid_strings, invalid_strings, patterns_to_try, order, idx, invoked>>

Next ==
    \/ Enter
    \/ CharacterClass
    \/ Position
    \/ Structure
    \/ Content
    \/ Length
    \/ TestNext
    \/ FallBack

Spec == Init /\ [][Next]_vars

(***************************************************************************)
(* The properties.                                                         *)
(***************************************************************************)
Returned == pc = "done"

RejectsInvalid(pattern) ==
    \A k \in 1..Len(invalid_strings) : ~FullMatch(pattern, invalid_strings[k])

MatchesValid(pattern) ==
    \A k \in 1..Len(valid_strings) : FullMatch(pattern, valid_strings[k])

\* The returned text is one of the two fallback-ladder patterns.
FromFallbackLadder ==
    \/ result = MatchAll
    \/ Len(valid_strings) = 1 /\ result = ExactLiteral(valid_strings[1])

\* C1: a returned pattern that is neither the exact-literal escape of the
\* single valid string nor "^.*$" full-matches no string of invalid_strings,
\* also when valid_strings is empty.
C1_NonFallbackRejectsInvalid ==
    (Returned /\ ~FromFallbackLadder) => RejectsInvalid(result)

\* C2: a returned pattern other than "^.*$" full-matches every string of
\* valid_strings.
C2_ReturnedMatchesValid ==
    (Returned /\ result # MatchAll) => MatchesValid(result)

C2_Witness ==
    /\ Returned
    /\ via = "candidate"
    /\ Len(valid_strings) = 2
    /\ valid_strings[1] # valid_strings[2]
    /\ invalid_strings # <<>>

\* C3: the returned pattern is the same for every order in which the run may
\* iterate the set exclusive_chars: it is a function of the two arguments.
C3_Deterministic ==
    Returned =>
        \A o \in IterationOrders(common_exclusive(valid_strings, invalid_strings)) :
            generate_gree_expression(valid_strings, invalid_strings, o) = result

\* C4: when "^.*$" is returned it full-matches every string of valid_strings,
\* a string holding a line feed included.
C4_UniversalMatchesValid ==
    (Returned /\ result = MatchAll) => MatchesValid(MatchAll)

JustX == << <<"x">> >>                          \* valid_strings = ["x"]

\* C5, as claimed: for valid_strings = ["x"] and invalid_strings = [] no
\* candidate wins and the exact-literal fallback "^x$" is returned.
C5_FallsThroughToLiteral ==
    (Returned /\ valid_strings = JustX /\ invalid_strings = <<>>)
        => (via = "escape" /\ result = <<"^", "x", "$">>)

\* C5, amended: for valid_strings = ["x"] and invalid_strings = [] the first
\* candidate, the character-class pattern "^\D+$", validates and is returned;
\* the fallback is not reached.
C5_FirstCandidateWins ==
    (Returned /\ valid_strings = JustX /\ invalid_strings = <<>>)
        => (via = "candidate" /\ idx = 1 /\ result = <<"^", "\\", "D", "+", "$">>)

C5_Witness == Returned /\ valid_strings = JustX /\ invalid_strings = <<>>

Qualifies(pattern) ==
    Len(pattern) <= MaxPatternLen
    /\ _test_pattern(pattern, valid_strings, invalid_strings)

\* C6: the candidate list the loop runs over is the concatenation
\* character-class, position, structural, content, length (duplicates kept),
\* and a pattern returned from it is the first of at most 20 characters that
\* validates.
C6_FirstQualifyingCandidate ==
    /\ pc = "loop" =>
          patterns_to_try =
              _get_character_class_patterns(valid_strings, invalid_strings)
              \o _get_position_patterns(valid_strings, invalid_strings)
              \o _get_structure_patterns(valid_strings, invalid_strings)
              \o _get_content_patterns(valid_strings, invalid_strings, order)
              \o _get_length_patterns(valid_strings, invalid_strings)
    /\ Returned /\ via = "candidate" =>
          /\ idx \in 1..Len(patterns_to_try)
          /\ result = patterns_to_try[idx]
          /\ Qualifies(result)
          /\ \A k \in 1..(idx - 1) : ~Qualifies(patterns_to_try[k])

\* A pattern returned after an earlier candidate, of exactly 20 characters,
\* was tested and failed.
C6_Witness ==
    /\ Returned
    /\ via = "candidate"
    /\ idx > 1
    /\ Len(patterns_to_try[idx - 1]) = MaxPatternLen
    /\ result = WordEmail

NoCandidateQualifies ==
    \A k \in 1..Len(patterns_to_try) : ~Qualifies(patterns_to_try[k])

\* C7: with a non-empty valid_strings and no validating candidate of at most
\* 20 characters, the call returns the exact-literal pattern exactly when
\* there is one valid string of at most 18 characters, and "^.*$" otherwise;
\* a call that has not returned can take its next step (no step is stuck
\* and the loop index stays within the list), and a return carries a pattern.
C7_FallbackLadder ==
    /\ (Returned /\ valid_strings # <<>> /\ NoCandidateQualifies) =>
          result = IF Len(valid_strings) = 1 /\ Len(valid_strings[1]) <= MaxLiteralLen
                   THEN <<"^">> \o re_escape(valid_strings[1]) \o <<"$">>
                   ELSE <<"^", ".", "*", "$">>
    /\ ~Returned =>
          /\ pc \in {"start", "character_class", "position", "structure",
                     "content", "length", "loop"}
          /\ pc = "content" =>
                IterationOrders(common_exclusive(valid_strings, invalid_strings)) # {}
          /\ pc = "loop" => idx \in 1..(Len(patterns_to_try) + 1)
    /\ Returned => result # NoResult /\ via \in {"empty", "candidate", "escape", "universal"}

\* The exact-literal fallback for a valid string of exactly 18 characters.
C7_Witness ==
    /\ Returned
    /\ via = "escape"
    /\ Len(valid_strings[1]) = MaxLiteralLen
    /\ NoCandidateQualifies

\* C8: for an empty valid_strings the call returns "^$" whatever
\* invalid_strings is, and calls no generator and no validator.
C8_EmptyValidSet ==
    valid_strings = <<>> =>
        /\ pc \in {"start", "done"}
        /\ invoked = {}
        /\ patterns_to_try = <<>>
        /\ Returned => result = <<"^", "$">>

C8_Witness ==
    /\ Returned
    /\ valid_strings = <<>>
    /\ \E k \in 1..Len(invalid_strings) : invalid_strings[k] = <<>>

\* The patterns the separator loop proposes and the exclusive-character loop
\* of the same call does not.
SeparatorOnly(valid, invalid, o) ==
    Range(SeparatorPatterns(common_separators, valid, invalid))
        \ Range(ExclusivePatterns(o, valid))

\* C9, as claimed: for some non-empty valid_strings and some invalid_strings
\* the separator loop proposes a pattern that the exclusive-character loop of
\* the same call does not propose.
C9_SeparatorNotSubsumed ==
    \E v \in ValidInputs \ {<<>>} : \E i \in InvalidInputs(v) :
        \E o \in IterationOrders(common_exclusive(v, i)) :
            SeparatorOnly(v, i, o) # {}

\* C9, amended: for a non-empty valid_strings every pattern the separator
\* loop proposes is also proposed by the exclusive-character loop of the same
\* call.
C9_SeparatorSubsumed ==
    pc \in {"length", "loop", "done"} /\ valid_strings # <<>> =>
        SeparatorOnly(valid_strings, invalid_strings, order) = {}

\* The separator loop has proposed a pattern, with two invalid strings given.
C9_Witness ==
    /\ pc = "length"
    /\ SeparatorPatterns(common_separators, valid_strings, invalid_strings) # <<>>
    /\ Len(invalid_strings) = 2

\* The structural generator with the gate taken away: all three candidates
\* are emitted, in the same order.
UngatedStructurePatterns(valid) ==
    IF LooksLikeEmail(valid) THEN <<email_pattern, NoAtEmail, WordEmail>> ELSE <<>>

UngatedCandidates(valid, invalid, o) ==
    _get_character_class_patterns(valid, invalid)
    \o _get_position_patterns(valid, invalid)
    \o UngatedStructurePatterns(valid)
    \o _get_content_patterns(valid, invalid, o)
    \o _get_length_patterns(valid, invalid)

\* C10, as claimed: for some input the gate on the first structural candidate
\* makes the call return another pattern than the ungated variant returns.
C10_GateChangesResult ==
    \E v \in ValidInputs \ {<<>>} : \E i \in InvalidInputs(v) :
        /\ LooksLikeEmail(v)
        /\ \E o \in IterationOrders(common_exclusive(v, i)) :
              generate_gree_expression(v, i, o)
                  # Outcome(UngatedCandidates(v, i, o), v, i)

\* C10, amended: for every input the call returns the pattern the ungated
\* variant returns; the gate changes the candidate list, never the result.
C10_GateChangesNothing ==
    Returned /\ valid_strings # <<>> =>
        result = Outcome(UngatedCandidates(valid_strings, invalid_strings, order),
                         valid_strings, invalid_strings)

\* The gated candidate was returned although another structural candidate
\* validates too.
C10_Witness ==
    /\ Returned
    /\ result = email_pattern
    /\ _test_pattern(NoAtEmail, valid_strings, invalid_strings)
    /\ invalid_strings # <<>>

====
